---------------------------- MODULE Spec2Model ----------------------------
(***************************************************************************)
(* Trajectory analysis (NED.py, the single-file script, and NED2.py, the   *)
(* GUI batch version).  The model covers the turn-status filter, the       *)
(* reference extractor, the per-file pipeline and the GUI batch driver.    *)
(*                                                                         *)
(* A field value of a CSV row is a text: a sequence of one-character       *)
(* strings.  The empty sequence stands for an absent key, None and the     *)
(* empty string alike: all three are falsy for row.get(field).             *)
(* The character "sup3" stands for U+00B3 (superscript three), a character *)
(* for which str.isdigit() is True although int() rejects it.              *)
(***************************************************************************)
EXTENDS Integers, Sequences, FiniteSets, TLC

VARIABLES
    variant,            \* "NED" (NED.py) or "NED2" (NED2.py): the program that runs
    data,               \* the rows of the file under analysis (list of dicts)
    pc,                 \* position of the running function
    i,                  \* 1-based position of the next row of a `for row in data` loop
    turn_status_data,   \* filter_turn_status_data: rows appended so far (positions in data)
    found_0_to_3,       \* filter_turn_status_data: the flag of the same name
    result,             \* value returned by filter_turn_status_data
    reference_data,     \* value returned by extract_reference_data: None or Some(dict)
    file_path,          \* analyze, analyze_file: the file, modelled by what it holds
    baseline,           \* analyze, analyze_file: the five values of calculate_baseline_vectors
    target,             \* analyze, analyze_file: (target_x, target_y)
    trajectory_xys,     \* analyze, analyze_file: the projected points
    transformed_trajectory, \* analyze, analyze_file: the points in the baseline frame
    file_result,        \* analyze_file: the returned dict, None before the return
    export_directory,   \* TrajectoryGUI.export_directory ("" when unset)
    file_paths,         \* TrajectoryGUI.file_paths
    analysis_results,   \* TrajectoryGUI.analysis_results
    stack               \* the run_analysis calls in progress, innermost last

\* the locals of analyze and analyze_file
analyzeVars ==
    <<file_path, baseline, target, trajectory_xys, transformed_trajectory, file_result>>

\* the state of TrajectoryGUI
guiVars == <<export_directory, file_paths, analysis_results, stack>>

vars ==
    <<variant, data, pc, i, turn_status_data, found_0_to_3, result, reference_data,
      analyzeVars, guiVars>>

\* the variables of filter_turn_status_data
filterVars == <<turn_status_data, found_0_to_3, result>>

---------------------------------------------------------------------------
(* Bounds of the model *)

\* rows per file when every status text may occur
MaxLen == 4
\* rows after the starting status-0 row in the lookback-window specification
MaxWin == 6
\* rows per file in the reference-extractor specification
MaxRef == 3
\* rows per file in the pipeline specification
MaxFile == 4
\* files chosen in one file dialog
MaxSel == 2
\* run_analysis calls in progress at once (the first, and those entered from
\* root.update() while an earlier one is running)
MaxDepth == 2
\* points of a trajectory handed to transform_to_baseline_coordinate
MaxPts == 2

---------------------------------------------------------------------------
(* Texts and Python's conversions *)

Digits == {"0", "1", "2", "3", "4", "5", "6", "7", "8", "9"}
SuperDigits == {"sup3"}
Whitespace == {" "}
Signs == {"+", "-"}

DigitVal(c) ==
    CASE c = "0" -> 0 [] c = "1" -> 1 [] c = "2" -> 2 [] c = "3" -> 3
      [] c = "4" -> 4 [] c = "5" -> 5 [] c = "6" -> 6 [] c = "7" -> 7
      [] c = "8" -> 8 [] c = "9" -> 9

\* bool(text): a missing key, None and "" are falsy, any other string is truthy
Truthy(t) == t # <<>>

RECURSIVE LStrip(_)
LStrip(t) == IF t # <<>> /\ Head(t) \in Whitespace THEN LStrip(Tail(t)) ELSE t

RECURSIVE RStrip(_)
RStrip(t) ==
    IF t # <<>> /\ t[Len(t)] \in Whitespace THEN RStrip(SubSeq(t, 1, Len(t) - 1)) ELSE t

\* str.strip()
Strip(t) == RStrip(LStrip(t))

RECURSIVE DecVal(_)
DecVal(t) == IF t = <<>> THEN 0 ELSE 10 * DecVal(SubSeq(t, 1, Len(t) - 1)) + DigitVal(t[Len(t)])

\* int(text): surrounding whitespace is dropped, one sign is allowed, the rest
\* must be one or more decimal digits; anything else raises ValueError.
PyInt(t) ==
    LET s == Strip(t)
        signed == s # <<>> /\ Head(s) \in Signs
        body == IF signed THEN Tail(s) ELSE s
    IN  IF body # <<>> /\ \A k \in 1..Len(body) : body[k] \in Digits
        THEN [err |-> FALSE,
              val |-> IF signed /\ Head(s) = "-" THEN 0 - DecVal(body) ELSE DecVal(body)]
        ELSE [err |-> TRUE, val |-> 0]

\* str.isdigit(): non-empty and every character is a digit character
\* (superscript digits included, signs and whitespace excluded)
IsDigit(t) == t # <<>> /\ \A k \in 1..Len(t) : t[k] \in (Digits \cup SuperDigits)

\* Optional values: None, or Some(x)
None == <<>>
Some(x) == <<x>>

\* A float is [kind, val, eps]: kind "num" stands for the finite value
\* val + eps * 6.123e-17, with integers val and eps, or kind is one of the
\* non-finite "nan", "inf", "-inf" (val and eps 0).  6.123e-17 is the distance
\* of the float nearest to pi/2 from pi/2, which is what math.sin and math.cos
\* return in place of 0 at the multiples of 90 degrees; eps is carried to
\* first order and the rounding of a sum is not modelled.
NumE(n, e) == [kind |-> "num", val |-> n, eps |-> e]
Num(n) == NumE(n, 0)
NaN == [kind |-> "nan", val |-> 0, eps |-> 0]
PosInf == [kind |-> "inf", val |-> 0, eps |-> 0]
NegInf == [kind |-> "-inf", val |-> 0, eps |-> 0]
IsFinite(x) == x.kind = "num"

FNeg(a) ==
    CASE a.kind = "num" -> NumE(0 - a.val, 0 - a.eps)
      [] a.kind = "nan" -> NaN
      [] a.kind = "inf" -> NegInf
      [] a.kind = "-inf" -> PosInf

FAdd(a, b) ==
    IF a.kind = "nan" \/ b.kind = "nan" THEN NaN
    ELSE IF a.kind = "num" /\ b.kind = "num" THEN NumE(a.val + b.val, a.eps + b.eps)
    ELSE IF a.kind = "num" THEN b
    ELSE IF b.kind = "num" THEN a
    ELSE IF a.kind = b.kind THEN a
    ELSE NaN

FSub(a, b) == FAdd(a, FNeg(b))

FMul(a, b) ==
    LET lead(x) == IF x.val # 0 THEN x.val ELSE x.eps
        sign(x) == IF x.kind = "num"
                   THEN (IF lead(x) > 0 THEN 1 ELSE IF lead(x) < 0 THEN 0 - 1 ELSE 0)
                   ELSE (IF x.kind = "inf" THEN 1 ELSE 0 - 1)
    IN  IF a.kind = "nan" \/ b.kind = "nan" THEN NaN
        ELSE IF a.kind = "num" /\ b.kind = "num"
        THEN NumE(a.val * b.val, a.val * b.eps + a.eps * b.val)
        ELSE IF sign(a) * sign(b) = 0 THEN NaN
        ELSE IF sign(a) * sign(b) > 0 THEN PosInf
        ELSE NegInf

\* math.sin(math.radians(x)) and math.cos(math.radians(x)) for a finite x that
\* is a multiple of 90 degrees, the headings of the model (eps 0, and
\* |x| <= 900, beyond which math.radians rounds differently).  With
\* k = x / 90, math.radians(x) is k times the float nearest to pi/2, so where
\* the exact value is 0 the result is k * 6.123e-17 up to the sign, and where
\* it is 1 or -1 the result is exactly that.
SinDeg(n) ==
    LET k == n \div 90
    IN  CASE n % 360 = 0 -> NumE(0, 0 - k)
          [] n % 360 = 90 -> NumE(1, 0)
          [] n % 360 = 180 -> NumE(0, k)
          [] n % 360 = 270 -> NumE(0 - 1, 0)

CosDeg(n) ==
    LET k == n \div 90
    IN  CASE n % 360 = 0 -> NumE(1, 0)
          [] n % 360 = 90 -> NumE(0, k)
          [] n % 360 = 180 -> NumE(0 - 1, 0)
          [] n % 360 = 270 -> NumE(0, 0 - k)

\* float(text): surrounding whitespace is dropped, one sign is allowed, the
\* rest is a decimal number or one of the words nan, inf, infinity; anything
\* else raises ValueError.  The numbers of the model are written without a
\* fraction or an exponent.
PyFloat(t) ==
    LET s == Strip(t)
        signed == s # <<>> /\ Head(s) \in Signs
        neg == signed /\ Head(s) = "-"
        body == IF signed THEN Tail(s) ELSE s
    IN  IF body # <<>> /\ \A k \in 1..Len(body) : body[k] \in Digits
        THEN [err |-> FALSE, v |-> Num(IF neg THEN 0 - DecVal(body) ELSE DecVal(body))]
        ELSE IF body = <<"n", "a", "n">>
        THEN [err |-> FALSE, v |-> NaN]
        ELSE IF body \in { <<"i", "n", "f">>, <<"i", "n", "f", "i", "n", "i", "t", "y">> }
        THEN [err |-> FALSE, v |-> IF neg THEN NegInf ELSE PosInf]
        ELSE [err |-> TRUE, v |-> NaN]

---------------------------------------------------------------------------
(* Rows *)

REQUIRED_FIELDS == {"target_lat", "target_lon", "heading_deg", "offset_deg"}

\* a row in which every recognised field is absent
BlankRow ==
    [turn_status |-> <<>>, target_lat |-> <<>>, target_lon |-> <<>>,
     heading_deg |-> <<>>, offset_deg |-> <<>>, lat |-> <<>>, lon |-> <<>>,
     cross_track_error |-> <<>>, timestamp |-> <<>>]

StatusRow(ts) == [BlankRow EXCEPT !.turn_status = ts]

\* the status texts a row may carry
StatusTexts ==
    { <<>>, <<"0">>, <<"1">>, <<"2">>, <<"3">>, <<" ", "3">>, <<"x">>, <<"sup3">> }

\* the status texts of the lookback-window specification
WindowTexts == { <<>>, <<"0">>, <<"1">>, <<"3">>, <<"x">> }

SeqsUpTo(S, n) == UNION { [1..k -> S] : k \in 0..n }

Variants == {"NED", "NED2"}

\* the text parses (int() returns) and the value is v
ParsesTo(t, v) == ~PyInt(t).err /\ PyInt(t).val = v

---------------------------------------------------------------------------
(* filter_turn_status_data.  d is the list of rows; the output list holds  *)
(* the rows themselves, modelled by their positions in d.                  *)

\* LastFive with the slice one entry too long
LastSix(out) == SubSeq(out, IF Len(out) > 6 THEN Len(out) - 5 ELSE 1, Len(out))

\* turn_status_data[-5:]
LastFive(out) == SubSeq(out, IF Len(out) > 5 THEN Len(out) - 4 ELSE 1, Len(out))

\* NED.py: the entries of the slice that pass the comprehension's filter
NED_recent_rows(d, out) ==
    { k \in DOMAIN LastFive(out) : Truthy(d[LastFive(out)[k]].turn_status) }

\* NED2.py: the entries of the slice that pass the comprehension's filter
NED2_recent_rows(d, out) ==
    { k \in DOMAIN LastFive(out) :
        /\ Truthy(d[LastFive(out)[k]].turn_status)
        /\ IsDigit(d[LastFive(out)[k]].turn_status) }

recent_rows(v, d, out) ==
    IF v = "NED" THEN NED_recent_rows(d, out) ELSE NED2_recent_rows(d, out)

\* the comprehension raises ValueError when int() rejects one of its entries
recent_raises(v, d, out) ==
    \E k \in recent_rows(v, d, out) : PyInt(d[LastFive(out)[k]].turn_status).err

\* recent_statuses, as a set (the code only asks whether 3 is in it)
recent_statuses(v, d, out) ==
    { PyInt(d[LastFive(out)[k]].turn_status).val : k \in recent_rows(v, d, out) }

\* NED_row that keeps an active row whose status is missing or unparseable
NED_row_tolerant(d, st, n) ==
    LET t == d[n].turn_status
        p == PyInt(t)
        found == st.found \/ p.val = 0
        out == Append(st.out, n)
    IN  IF ~Truthy(t) \/ p.err
        THEN [st EXCEPT !.out = IF st.found THEN Append(st.out, n) ELSE st.out]
        ELSE IF ~found THEN st
        ELSE IF p.val # 1 THEN [out |-> out, found |-> found, brk |-> FALSE]
        ELSE IF recent_raises("NED", d, out)
        THEN [out |-> out, found |-> found, brk |-> FALSE]
        ELSE [out |-> out, found |-> found, brk |-> 3 \in recent_statuses("NED", d, out)]

\* One iteration of the loop of NED.py on row n.  st = [out, found, brk].
NED_row(d, st, n) ==
    LET t == d[n].turn_status
        p == PyInt(t)
        found == st.found \/ p.val = 0
        out == Append(st.out, n)
    IN  IF ~Truthy(t) THEN st
        ELSE IF p.err THEN st
        ELSE IF ~found THEN st
        ELSE IF p.val # 1 THEN [out |-> out, found |-> found, brk |-> FALSE]
        ELSE IF recent_raises("NED", d, out)
        THEN [out |-> out, found |-> found, brk |-> FALSE]
        ELSE [out |-> out, found |-> found, brk |-> 3 \in recent_statuses("NED", d, out)]

\* NED2_row that appends a row without a usable status before the start too
NED2_row_always_append(d, st, n) ==
    LET t == d[n].turn_status
        p == PyInt(t)
        found == st.found \/ p.val = 0
        out == Append(st.out, n)
    IN  IF ~Truthy(t) \/ p.err
        THEN [st EXCEPT !.out = Append(st.out, n)]
        ELSE IF ~found THEN st
        ELSE IF p.val # 1 THEN [out |-> out, found |-> found, brk |-> FALSE]
        ELSE IF recent_raises("NED2", d, out)
        THEN [out |-> Append(out, n), found |-> found, brk |-> FALSE]
        ELSE [out |-> out, found |-> found, brk |-> 3 \in recent_statuses("NED2", d, out)]

\* One iteration of the loop of NED2.py on row n.
NED2_row(d, st, n) ==
    LET t == d[n].turn_status
        p == PyInt(t)
        found == st.found \/ p.val = 0
        out == Append(st.out, n)
    IN  IF ~Truthy(t)
        THEN [st EXCEPT !.out = IF st.found THEN Append(st.out, n) ELSE st.out]
        ELSE IF p.err
        THEN [st EXCEPT !.out = IF st.found THEN Append(st.out, n) ELSE st.out]
        ELSE IF ~found THEN st
        ELSE IF p.val # 1 THEN [out |-> out, found |-> found, brk |-> FALSE]
        ELSE IF recent_raises("NED2", d, out)
        THEN [out |-> Append(out, n), found |-> found, brk |-> FALSE]
        ELSE [out |-> out, found |-> found, brk |-> 3 \in recent_statuses("NED2", d, out)]

filter_row(v, d, st, n) == IF v = "NED" THEN NED_row(d, st, n) ELSE NED2_row(d, st, n)

\* the whole list, as positions
AllRows(d) == [k \in 1..Len(d) |-> k]

\* NED2.py: any(row.get('turn_status') for row in data)
has_turn_status(d) == \E k \in 1..Len(d) : Truthy(d[k].turn_status)

\* filter_result with the fallback applied by both programs
filter_result_fallback(v, d, out) == IF out = <<>> THEN AllRows(d) ELSE out

\* filter_result without the fallback
filter_result_strict(v, d, out) == out

\* the return statement
filter_result(v, d, out) == IF v = "NED2" /\ out = <<>> THEN AllRows(d) ELSE out

RECURSIVE filter_loop(_, _, _, _)
filter_loop(v, d, st, n) ==
    IF n > Len(d) \/ st.brk THEN st ELSE filter_loop(v, d, filter_row(v, d, st, n), n + 1)

\* the function as a whole
filter_turn_status_data(v, d) ==
    IF v = "NED2" /\ ~has_turn_status(d)
    THEN AllRows(d)
    ELSE filter_result(v, d,
            filter_loop(v, d, [out |-> <<>>, found |-> FALSE, brk |-> FALSE], 1).out)

\* Entry of the function: NED2.py returns data at once when no row has a status.
FilterEnter ==
    /\ pc = "filter_enter"
    /\ IF variant = "NED2" /\ ~has_turn_status(data)
       THEN /\ pc' = "filter_done"
            /\ result' = AllRows(data)
       ELSE /\ pc' = "filter_loop"
            /\ UNCHANGED result
    /\ UNCHANGED <<guiVars, variant, data, i, turn_status_data, found_0_to_3, reference_data, analyzeVars>>

\* One iteration of `for row in data`.
FilterStep ==
    /\ pc = "filter_loop"
    /\ i <= Len(data)
    /\ LET st == filter_row(variant, data,
                            [out |-> turn_status_data, found |-> found_0_to_3, brk |-> FALSE],
                            i)
       IN  /\ turn_status_data' = st.out
           /\ found_0_to_3' = st.found
           /\ pc' = IF st.brk THEN "filter_break" ELSE "filter_loop"
    /\ i' = i + 1
    /\ UNCHANGED <<guiVars, variant, data, result, reference_data, analyzeVars>>

\* The return statement, reached by break or when the rows run out.
FilterReturn ==
    /\ \/ pc = "filter_break"
       \/ pc = "filter_loop" /\ i > Len(data)
    /\ result' = filter_result(variant, data, turn_status_data)
    /\ pc' = "filter_done"
    /\ UNCHANGED <<guiVars, variant, data, i, turn_status_data, found_0_to_3, reference_data, analyzeVars>>

---------------------------------------------------------------------------
(* extract_reference_data *)

\* the guard of the row: all(...) over REQUIRED_FIELDS
ref_all_present(v, row) ==
    \A f \in REQUIRED_FIELDS :
        /\ Truthy(row[f])
        /\ v = "NED2" => Truthy(Strip(row[f]))

\* one of the four float() calls raises ValueError
ref_raises(row) == \E f \in REQUIRED_FIELDS : PyFloat(row[f]).err

\* the dict the function returns for the row
ref_values(row) == [f \in REQUIRED_FIELDS |-> PyFloat(row[f]).v]

\* ref_row that does not convert offset_deg inside the try block
ref_row_unchecked_offset(v, row) ==
    /\ ref_all_present(v, row)
    /\ \A f \in REQUIRED_FIELDS \ {"offset_deg"} : ~PyFloat(row[f]).err

\* the row makes the function return
ref_row(v, row) == ref_all_present(v, row) /\ ~ref_raises(row)

RECURSIVE ref_loop(_, _, _)
ref_loop(v, d, n) ==
    IF n > Len(d) THEN None
    ELSE IF ref_row(v, d[n]) THEN Some(ref_values(d[n]))
    ELSE ref_loop(v, d, n + 1)

\* the function as a whole
extract_reference_data(v, d) == ref_loop(v, d, 1)

\* One iteration of `for row in data`.
RefStep ==
    /\ pc = "ref_loop"
    /\ i <= Len(data)
    /\ IF ref_row(variant, data[i])
       THEN /\ reference_data' = Some(ref_values(data[i]))
            /\ pc' = "ref_done"
            /\ UNCHANGED i
       ELSE /\ i' = i + 1
            /\ UNCHANGED <<reference_data, pc>>
    /\ UNCHANGED <<guiVars, variant, data, filterVars, analyzeVars>>

\* The rows run out: return None.
RefReturnNone ==
    /\ pc = "ref_loop"
    /\ i > Len(data)
    /\ reference_data' = None
    /\ pc' = "ref_done"
    /\ UNCHANGED <<guiVars, variant, data, i, filterVars, analyzeVars>>

---------------------------------------------------------------------------
(* The per-file pipeline: analyze (NED.py) and analyze_file (NED2.py) *)

PROJECTION_LAT_CENTER == 35
PROJECTION_LON_CENTER == 135

\* a file that cannot be opened or decoded
Unreadable == [readable |-> FALSE, rows |-> <<>>]

\* a file that holds the rows d
FileOf(d) == [readable |-> TRUE, rows |-> d]

\* self.proj(lon, lat).  The azimuthal equidistant projection of pyproj is
\* modelled by the offset from the projection centre, in degrees: the centre
\* maps to (0, 0) and distinct positions map to distinct points.
latlon_to_xy(lat, lon) ==
    <<FSub(lon, Num(PROJECTION_LON_CENTER)), FSub(lat, Num(PROJECTION_LAT_CENTER))>>

\* math.sin and math.cos raise ValueError (math domain error) for an infinity
baseline_raises(heading_deg, offset_deg) ==
    FSub(heading_deg, offset_deg).kind \in {"inf", "-inf"}

\* (unit_x, unit_y, perp_x, perp_y, baseline_heading)
calculate_baseline_vectors(heading_deg, offset_deg) ==
    LET baseline_heading == FSub(heading_deg, offset_deg)
        unit_x == IF baseline_heading.kind = "num"
                  THEN SinDeg(baseline_heading.val) ELSE NaN
        unit_y == IF baseline_heading.kind = "num"
                  THEN CosDeg(baseline_heading.val) ELSE NaN
    IN  [unit_x |-> unit_x, unit_y |-> unit_y,
         perp_x |-> unit_y, perp_y |-> FNeg(unit_x),
         baseline_heading |-> baseline_heading]

\* the rows a list of positions stands for
RowsAt(d, out) == [k \in 1..Len(out) |-> d[out[k]]]

RECURSIVE extract_trajectory_coordinates(_)
extract_trajectory_coordinates(rows) ==
    IF rows = <<>> THEN <<>>
    ELSE LET row == Head(rows)
             rest == extract_trajectory_coordinates(Tail(rows))
         IN  IF /\ Truthy(row.lat) /\ Truthy(row.lon)
                /\ ~PyFloat(row.lat).err /\ ~PyFloat(row.lon).err
             THEN <<latlon_to_xy(PyFloat(row.lat).v, PyFloat(row.lon).v)>> \o rest
             ELSE rest

transform_to_baseline_coordinate(xys, t, b) ==
    [k \in 1..Len(xys) |->
        LET dx == FSub(xys[k][1], t[1])
            dy == FSub(xys[k][2], t[2])
        IN  <<FAdd(FMul(dx, b.perp_x), FMul(dy, b.perp_y)),
              FAdd(FMul(dx, b.unit_x), FMul(dy, b.unit_y))>>]

\* positions (0-based) and values of the rows whose cross_track_error converts
RECURSIVE cross_track_from(_, _)
cross_track_from(rows, n) ==
    IF n > Len(rows) THEN [timestamps |-> <<>>, errors |-> <<>>]
    ELSE LET rest == cross_track_from(rows, n + 1)
             t == rows[n].cross_track_error
         IN  IF Truthy(t) /\ ~PyFloat(t).err
             THEN [timestamps |-> <<n - 1>> \o rest.timestamps,
                   errors |-> <<PyFloat(t).v>> \o rest.errors]
             ELSE rest

\* numbering the samples themselves, not the rows they come from
extract_cross_track_error_data_dense(rows) ==
    LET r == cross_track_from(rows, 1)
    IN  [timestamps |-> [k \in 1..Len(r.errors) |-> k - 1], errors |-> r.errors]

extract_cross_track_error_data(rows) == cross_track_from(rows, 1)

\* the rows handed to extract_reference_data: the rows of the rows actually
\* selected by the turn filter
reference_source_filtered(v, d) == RowsAt(d, filter_turn_status_data(v, d))

\* the rows handed to extract_reference_data: the file's rows
reference_source(v, d) == d

\* the dict analyze_file returns from its except branch
Failure(f, msg) == [file_path |-> f, error |-> msg, success |-> FALSE]

\* the dict analyze_file returns from its try block
Success(f, transformed, cte, heading) ==
    [file_path |-> f, transformed_trajectory |-> transformed,
     timestamps |-> cte.timestamps, cross_track_errors |-> cte.errors,
     baseline_heading |-> heading, success |-> TRUE]

\* analyze_file (NED2.py) as a whole
analyze_file(f) ==
    IF ~f.readable THEN Failure(f, "csv read error")
    ELSE LET d == f.rows
             ref == extract_reference_data("NED2", reference_source("NED2", d))
         IN  IF ref = None THEN Failure(f, "missing reference data")
             ELSE IF baseline_raises(ref[1].heading_deg, ref[1].offset_deg)
             THEN Failure(f, "math domain error")
             ELSE LET b == calculate_baseline_vectors(ref[1].heading_deg, ref[1].offset_deg)
                      t == latlon_to_xy(ref[1].target_lat, ref[1].target_lon)
                      rows == RowsAt(d, filter_turn_status_data("NED2", d))
                      xys == extract_trajectory_coordinates(rows)
                  IN  Success(f, transform_to_baseline_coordinate(xys, t, b),
                              extract_cross_track_error_data(rows), b.baseline_heading)

\* How a fatal error ends the function.  NED.py prints and calls sys.exit(1),
\* or dies of the uncaught ValueError; NED2.py returns the failure dict.
Fatal(msg) ==
    IF variant = "NED"
    THEN /\ pc' = IF msg = "math domain error" THEN "uncaught_error" ELSE "exit_1"
         /\ UNCHANGED file_result
    ELSE /\ pc' = "analyze_done"
         /\ file_result' = Some(Failure(file_path, msg))

\* data = self.load_csv_data(...)
AnalyzeLoad ==
    /\ pc = "analyze_load"
    /\ IF file_path.readable
       THEN /\ data' = file_path.rows
            /\ pc' = "analyze_reference"
            /\ UNCHANGED file_result
       ELSE /\ Fatal("csv read error")
            /\ UNCHANGED data
    /\ UNCHANGED <<guiVars, variant, i, filterVars, reference_data, file_path, baseline, target,
                   trajectory_xys, transformed_trajectory>>

\* reference_data = self.extract_reference_data(data), and the test for None
AnalyzeReference ==
    /\ pc = "analyze_reference"
    /\ reference_data' = extract_reference_data(variant, reference_source(variant, data))
    /\ IF reference_data' = None
       THEN Fatal("missing reference data")
       ELSE pc' = "analyze_baseline" /\ UNCHANGED file_result
    /\ UNCHANGED <<guiVars, variant, data, i, filterVars, file_path, baseline, target,
                   trajectory_xys, transformed_trajectory>>

\* the baseline vectors and the projected target
AnalyzeBaseline ==
    /\ pc = "analyze_baseline"
    /\ LET ref == reference_data[1]
       IN  IF baseline_raises(ref.heading_deg, ref.offset_deg)
           THEN /\ Fatal("math domain error")
                /\ UNCHANGED <<baseline, target>>
           ELSE /\ baseline' = Some(calculate_baseline_vectors(ref.heading_deg, ref.offset_deg))
                /\ target' = Some(latlon_to_xy(ref.target_lat, ref.target_lon))
                /\ pc' = "analyze_filter"
                /\ UNCHANGED file_result
    /\ UNCHANGED <<guiVars, variant, data, i, filterVars, reference_data, file_path,
                   trajectory_xys, transformed_trajectory>>

\* turn_status_data = self.filter_turn_status_data(data), and the projection
\* of its rows
AnalyzeFilter ==
    /\ pc = "analyze_filter"
    /\ turn_status_data' = filter_turn_status_data(variant, data)
    /\ trajectory_xys' = extract_trajectory_coordinates(RowsAt(data, turn_status_data'))
    /\ pc' = "analyze_transform"
    /\ UNCHANGED <<guiVars, variant, data, i, found_0_to_3, result, reference_data, file_path,
                   baseline, target, transformed_trajectory, file_result>>

\* the transformation, then plot_results (NED.py) or the cross-track samples
\* and the returned dict (NED2.py)
AnalyzeTransform ==
    /\ pc = "analyze_transform"
    /\ transformed_trajectory' =
            transform_to_baseline_coordinate(trajectory_xys, target[1], baseline[1])
    /\ IF variant = "NED"
       THEN /\ pc' = "plotted"
            /\ UNCHANGED file_result
       ELSE /\ pc' = "analyze_done"
            /\ file_result' =
                 Some(Success(file_path, transformed_trajectory',
                              extract_cross_track_error_data(RowsAt(data, turn_status_data)),
                              baseline[1].baseline_heading))
    /\ UNCHANGED <<guiVars, variant, data, i, filterVars, reference_data, file_path, baseline,
                   target, trajectory_xys>>

---------------------------------------------------------------------------
(* Specifications *)

InitGuiVars ==
    /\ export_directory = ""
    /\ file_paths = <<>>
    /\ analysis_results = <<>>
    /\ stack = <<>>

InitAnalyzeVars ==
    /\ file_path = Unreadable
    /\ baseline = None
    /\ target = None
    /\ trajectory_xys = <<>>
    /\ transformed_trajectory = <<>>
    /\ file_result = None

InitFilter(inputs) ==
    /\ variant \in Variants
    /\ data \in inputs
    /\ pc = "filter_enter"
    /\ i = 1
    /\ turn_status_data = <<>>
    /\ found_0_to_3 = FALSE
    /\ result = <<>>
    /\ reference_data = None
    /\ InitAnalyzeVars
    /\ InitGuiVars

StatusRows(s) == [k \in DOMAIN s |-> StatusRow(s[k])]

\* files of at most MaxLen rows over all status texts
Init == InitFilter({ StatusRows(s) : s \in SeqsUpTo(StatusTexts, MaxLen) })

\* files that open with the status-0 row, followed by at most MaxWin rows
InitWindow ==
    InitFilter({ StatusRows(<<(<<"0">>)>> \o s) : s \in SeqsUpTo(WindowTexts, MaxWin) })

Next ==
    \/ FilterEnter
    \/ FilterStep
    \/ FilterReturn

Spec == Init /\ [][Next]_vars

SpecWindow == InitWindow /\ [][Next]_vars

\* Reference rows.  RefA and RefB are complete rows with different values;
\* a defective row is RefA with one field replaced.
RefRow(lat, lon, heading, offset) ==
    [BlankRow EXCEPT !.target_lat = lat, !.target_lon = lon,
                     !.heading_deg = heading, !.offset_deg = offset]

RefA == RefRow(<<"3", "5">>, <<"1", "3", "5">>, <<"9", "0">>, <<"0">>)

RefB == RefRow(<<"3", "6">>, <<"1", "3", "6">>, <<" ", "1", "8", "0", " ">>, <<"-", "9", "0">>)

DefectTexts == { <<>>, <<" ">>, <<"x">>, <<"n", "a", "n">>, <<"i", "n", "f">> }

RefRows ==
    {BlankRow, RefA, RefB}
        \cup { [RefA EXCEPT ![f] = t] : f \in REQUIRED_FIELDS, t \in DefectTexts }

InitRef ==
    /\ variant \in Variants
    /\ data \in SeqsUpTo(RefRows, MaxRef)
    /\ pc = "ref_loop"
    /\ i = 1
    /\ turn_status_data = <<>>
    /\ found_0_to_3 = FALSE
    /\ result = <<>>
    /\ reference_data = None
    /\ InitAnalyzeVars
    /\ InitGuiVars

NextRef ==
    \/ RefStep
    \/ RefReturnNone

SpecRef == InitRef /\ [][NextRef]_vars

\* Pipeline rows: a status, a position, a cross-track error and, on some
\* rows, a reference fix: RefA with any status, RefB and RefInf (a fix whose
\* heading is infinite) on a row with status 0.
RefInf == [RefA EXCEPT !.heading_deg = <<"i", "n", "f">>]

PipelineStatusTexts == { <<"0">>, <<"1">>, <<"3">> }

PipelineRow(ref, ts) ==
    [ref EXCEPT !.turn_status = ts, !.lat = <<"3", "6">>, !.lon = <<"1", "3", "7">>,
                !.cross_track_error = <<"2">>]

PipelineRows ==
    { PipelineRow(ref, ts) : ref \in {BlankRow, RefA}, ts \in PipelineStatusTexts }
        \cup { PipelineRow(RefB, <<"0">>), PipelineRow(RefInf, <<"0">>) }

PipelineFiles == {Unreadable} \cup { FileOf(d) : d \in SeqsUpTo(PipelineRows, MaxFile) }

InitAnalyze ==
    /\ variant \in Variants
    /\ file_path \in PipelineFiles
    /\ data = <<>>
    /\ pc = "analyze_load"
    /\ i = 1
    /\ turn_status_data = <<>>
    /\ found_0_to_3 = FALSE
    /\ result = <<>>
    /\ reference_data = None
    /\ baseline = None
    /\ target = None
    /\ trajectory_xys = <<>>
    /\ transformed_trajectory = <<>>
    /\ file_result = None
    /\ InitGuiVars

NextAnalyze ==
    \/ AnalyzeLoad
    \/ AnalyzeReference
    \/ AnalyzeBaseline
    \/ AnalyzeFilter
    \/ AnalyzeTransform

SpecAnalyze == InitAnalyze /\ [][NextAnalyze]_vars

\* Files for the cross-track samples of analyze_file: every row carries the
\* fix RefA and a position, a status 0 or 1, and a cross_track_error that is
\* absent, not a number, a number, a negative number or the word nan.
CrossTrackTexts == { <<>>, <<"x">>, <<"2">>, <<"-", "3">>, <<"n", "a", "n">> }

CrossTrackRows ==
    { [PipelineRow(RefA, ts) EXCEPT !.cross_track_error = c] :
        ts \in { <<"0">>, <<"1">> }, c \in CrossTrackTexts }

InitCrossTrack ==
    /\ variant = "NED2"
    /\ \E d \in SeqsUpTo(CrossTrackRows, MaxFile) : file_path = FileOf(d)
    /\ data = <<>>
    /\ pc = "analyze_load"
    /\ i = 1
    /\ turn_status_data = <<>>
    /\ found_0_to_3 = FALSE
    /\ result = <<>>
    /\ reference_data = None
    /\ baseline = None
    /\ target = None
    /\ trajectory_xys = <<>>
    /\ transformed_trajectory = <<>>
    /\ file_result = None
    /\ InitGuiVars

SpecCrossTrack == InitCrossTrack /\ [][NextAnalyze]_vars

---------------------------------------------------------------------------
(* TrajectoryGUI (NED2.py).  A handler runs when Tk dispatches its event:  *)
(* from mainloop, or from one of the self.root.update() calls of a         *)
(* run_analysis in progress (before and after each file, lines 406 and     *)
(* 418).  A run_analysis in progress is a frame of `stack`: the list it    *)
(* iterates, the position of the next file, and its successful_results.    *)
(* The widgets, the graph size and the Excel export are not modelled.      *)

\* the directories askdirectory may return; "" is a cancelled dialog
Directories == {"", "dirA", "dirB"}

\* the files the file dialog offers: one that cannot be read and one that
\* analyses well
GuiFiles == { Unreadable, FileOf(<<PipelineRow(RefA, <<"0">>)>>) }

\* what askopenfilenames may return: () when cancelled, else distinct files
Selections ==
    { s \in SeqsUpTo(GuiFiles, MaxSel) : \A a, b \in DOMAIN s : a # b => s[a] # s[b] }

select_export_directory ==
    /\ pc = "mainloop"
    /\ \E directory \in Directories :
        export_directory' = IF directory # "" THEN directory ELSE export_directory
    /\ UNCHANGED <<file_paths, analysis_results, stack>>
    /\ UNCHANGED <<variant, data, pc, i, filterVars, reference_data, analyzeVars>>

\* select_files without the test of export_directory
select_files_unguarded ==
    /\ pc = "mainloop"
    /\ \E files \in Selections :
        file_paths' = IF files # <<>> THEN files ELSE file_paths
    /\ UNCHANGED <<export_directory, analysis_results, stack>>
    /\ UNCHANGED <<variant, data, pc, i, filterVars, reference_data, analyzeVars>>

select_files ==
    /\ pc = "mainloop"
    /\ IF export_directory = ""
       THEN UNCHANGED file_paths
       ELSE \E files \in Selections :
                file_paths' = IF files # <<>> THEN files ELSE file_paths
    /\ UNCHANGED <<export_directory, analysis_results, stack>>
    /\ UNCHANGED <<variant, data, pc, i, filterVars, reference_data, analyzeVars>>

\* run_analysis up to the loop: the two guards, then the reset
run_analysis ==
    /\ pc = "mainloop"
    /\ Len(stack) < MaxDepth
    /\ IF export_directory = "" \/ file_paths = <<>>
       THEN UNCHANGED <<analysis_results, stack>>
       ELSE /\ analysis_results' = <<>>
            /\ stack' = Append(stack, [files |-> file_paths, idx |-> 1,
                                       successful_results |-> <<>>])
    /\ UNCHANGED <<export_directory, file_paths>>
    /\ UNCHANGED <<variant, data, pc, i, filterVars, reference_data, analyzeVars>>

\* one iteration of the loop of the innermost run_analysis
run_analysis_file ==
    /\ pc = "mainloop"
    /\ stack # <<>>
    /\ LET top == stack[Len(stack)]
       IN  /\ top.idx <= Len(top.files)
           /\ LET r == analyze_file(top.files[top.idx])
              IN  /\ analysis_results' = Append(analysis_results, r)
                  /\ stack' = [stack EXCEPT ![Len(stack)] =
                        [top EXCEPT !.idx = top.idx + 1,
                                    !.successful_results =
                                        IF r.success THEN Append(@, r) ELSE @]]
    /\ UNCHANGED <<export_directory, file_paths>>
    /\ UNCHANGED <<variant, data, pc, i, filterVars, reference_data, analyzeVars>>

\* the loop of the innermost run_analysis is over: export, and return
run_analysis_return ==
    /\ pc = "mainloop"
    /\ stack # <<>>
    /\ stack[Len(stack)].idx > Len(stack[Len(stack)].files)
    /\ stack' = SubSeq(stack, 1, Len(stack) - 1)
    /\ UNCHANGED <<export_directory, file_paths, analysis_results>>
    /\ UNCHANGED <<variant, data, pc, i, filterVars, reference_data, analyzeVars>>

\* TrajectoryGUI.__init__
InitGUI ==
    /\ variant = "NED2"
    /\ data = <<>>
    /\ pc = "mainloop"
    /\ i = 1
    /\ turn_status_data = <<>>
    /\ found_0_to_3 = FALSE
    /\ result = <<>>
    /\ reference_data = None
    /\ InitAnalyzeVars
    /\ InitGuiVars

NextGUI ==
    \/ select_export_directory
    \/ select_files
    \/ run_analysis
    \/ run_analysis_file
    \/ run_analysis_return

SpecGUI == InitGUI /\ [][NextGUI]_vars

\* The baseline functions on their own: calculate_baseline_vectors applied to
\* a heading and an offset, then transform_to_baseline_coordinate applied to
\* a list of points with the frame it returned.  The heading and the offset
\* are the floats float() can make of a CSV field: multiples of 90, NaN and
\* the infinities; the points and the target are projected positions.
FrameHeadings == { Num(0), Num(90), Num(180), Num(270), Num(0 - 90), NaN, PosInf, NegInf }

FrameOffsets == { Num(0), Num(90), NaN, PosInf }

FramePoints == { latlon_to_xy(Num(la), Num(lo)) : la \in {35, 36}, lo \in {135, 137} }

\* the call of calculate_baseline_vectors: it returns the frame or raises
calculate_baseline_vectors_call ==
    /\ pc = "baseline_call"
    /\ LET ref == reference_data[1]
       IN  IF baseline_raises(ref.heading_deg, ref.offset_deg)
           THEN /\ pc' = "baseline_raised"
                /\ UNCHANGED baseline
           ELSE /\ baseline' = Some(calculate_baseline_vectors(ref.heading_deg, ref.offset_deg))
                /\ pc' = "transform_call"
    /\ UNCHANGED <<guiVars, variant, data, i, filterVars, reference_data, file_path, target,
                   trajectory_xys, transformed_trajectory, file_result>>

\* the call of transform_to_baseline_coordinate
transform_to_baseline_coordinate_call ==
    /\ pc = "transform_call"
    /\ transformed_trajectory' =
            transform_to_baseline_coordinate(trajectory_xys, target[1], baseline[1])
    /\ pc' = "transform_done"
    /\ UNCHANGED <<guiVars, variant, data, i, filterVars, reference_data, file_path, baseline,
                   target, trajectory_xys, file_result>>

InitFrame ==
    /\ variant \in Variants
    /\ data = <<>>
    /\ pc = "baseline_call"
    /\ i = 1
    /\ turn_status_data = <<>>
    /\ found_0_to_3 = FALSE
    /\ result = <<>>
    /\ \E h \in FrameHeadings, o \in FrameOffsets :
        reference_data = Some([heading_deg |-> h, offset_deg |-> o])
    /\ file_path = Unreadable
    /\ baseline = None
    /\ target \in { Some(p) : p \in FramePoints }
    /\ trajectory_xys \in SeqsUpTo(FramePoints, MaxPts)
    /\ transformed_trajectory = <<>>
    /\ file_result = None
    /\ InitGuiVars

NextFrame ==
    \/ calculate_baseline_vectors_call
    \/ transform_to_baseline_coordinate_call

SpecFrame == InitFrame /\ [][NextFrame]_vars

---------------------------------------------------------------------------
(* Properties of filter_turn_status_data *)

\* a FilterStep on row i is about to happen
AtRow == pc = "filter_loop" /\ i <= Len(data)

\* a status 0 occurs in the file
HasZero == \E k \in 1..Len(data) : ParsesTo(data[k].turn_status, 0)

\* position of the first row whose status parses to 0
FirstZero ==
    CHOOSE k \in 1..Len(data) :
        /\ ParsesTo(data[k].turn_status, 0)
        /\ \A j \in 1..(k - 1) : ~ParsesTo(data[j].turn_status, 0)

\* one of the last five entries of out is a row whose status parses to 3
ThreeAmongLastFive(out) ==
    \E k \in 1..Len(out) : k > Len(out) - 5 /\ ParsesTo(data[out[k]].turn_status, 3)

\* the status is absent, empty or rejected by int()
NoSignal(t) == ~Truthy(t) \/ PyInt(t).err

\* the step has appended row i as the last entry of the output
AppendedRow ==
    /\ Len(turn_status_data') > Len(turn_status_data)
    /\ turn_status_data'[Len(turn_status_data')] = i

\* The step-by-step function returns what the function as a whole returns.
FilterAgrees == pc = "filter_done" => result = filter_turn_status_data(variant, data)

\* C1 (as stated): in both programs, a step that leaves the filter ACTIVE
\* breaks out of the loop if and only if it appended a row R whose status
\* parses to 1 and one of the last five appended rows (R included) has a
\* status that parses to 3; after the break nothing more is appended and the
\* returned list ends with R.
C1_StopIffOneAfterThree ==
    [][ /\ (AtRow /\ i' = i + 1 /\ found_0_to_3')
            => ((pc' = "filter_break")
                  <=> (/\ AppendedRow
                       /\ ParsesTo(data[i].turn_status, 1)
                       /\ ThreeAmongLastFive(turn_status_data')))
        /\ (pc' = "filter_break") => turn_status_data'[Len(turn_status_data')] = i
        /\ (pc = "filter_break")
            => /\ turn_status_data' = turn_status_data
               /\ result' = turn_status_data
               /\ result'[Len(result')] = i - 1
      ]_vars

\* C1 restricted to NED.py, where it holds.
C1_NED_StopIffOneAfterThree ==
    [][ (variant = "NED")
        => /\ (AtRow /\ i' = i + 1 /\ found_0_to_3')
               => ((pc' = "filter_break")
                     <=> (/\ AppendedRow
                          /\ ParsesTo(data[i].turn_status, 1)
                          /\ ThreeAmongLastFive(turn_status_data')))
           /\ (pc' = "filter_break") => turn_status_data'[Len(turn_status_data')] = i
           /\ (pc = "filter_break")
               => /\ turn_status_data' = turn_status_data
                  /\ result' = turn_status_data
                  /\ result'[Len(result')] = i - 1
      ]_vars

\* C2: in both programs, when some row's status parses to 0, no row before the
\* first such row is ever appended, and the returned list starts with that row.
C2_OutputStartsAtFirstZero ==
    HasZero =>
        /\ \A k \in 1..Len(turn_status_data) : turn_status_data[k] >= FirstZero
        /\ (pc = "filter_done")
            => /\ result # <<>>
               /\ result[1] = FirstZero
               /\ \A k \in 1..Len(result) : result[k] >= FirstZero

\* C2 witness: NED2.py has returned a list that starts at a first status 0
\* preceded by a row with a parseable status and a row without a status.
C2_Witness ==
    /\ variant = "NED2"
    /\ pc = "filter_done"
    /\ HasZero
    /\ FirstZero >= 3
    /\ \E j \in 1..(FirstZero - 1) : ParsesTo(data[j].turn_status, 1)
    /\ \E j \in 1..(FirstZero - 1) : NoSignal(data[j].turn_status)
    /\ result[1] = FirstZero

\* C3 (as stated): in NED.py, every row met while ACTIVE is appended.
C3_NED_ActiveAppendsEveryRow ==
    [][ (variant = "NED" /\ AtRow /\ i' = i + 1 /\ found_0_to_3)
        => turn_status_data' = Append(turn_status_data, i) ]_vars

\* C3 (amended): in NED.py, a row met while ACTIVE is appended if its status
\* is non-empty and parses as an integer, and is skipped otherwise.
C3_NED_ActiveAppendsParseableRows ==
    [][ (variant = "NED" /\ AtRow /\ i' = i + 1 /\ found_0_to_3)
        => IF NoSignal(data[i].turn_status)
           THEN turn_status_data' = turn_status_data
           ELSE turn_status_data' = Append(turn_status_data, i) ]_vars

\* C3 witness: NED.py, ACTIVE, has skipped a row without a usable status that
\* lies between two appended rows.
C3_Witness ==
    /\ variant = "NED"
    /\ pc = "filter_loop"
    /\ found_0_to_3
    /\ \E a, b \in 1..Len(turn_status_data) :
        /\ turn_status_data[b] = turn_status_data[a] + 2
        /\ b = a + 1
        /\ NoSignal(data[turn_status_data[a] + 1].turn_status)

\* C4: in NED2.py a row without a usable status is appended when ACTIVE and
\* dropped when IDLE, never starts and never stops the filter; and the filter
\* stops only when one of the last five appended rows, rows without a usable
\* status counted among the five, has a status that parses to 3.
C4_NED2_NoSignalRowKeptAndCounted ==
    [][ (variant = "NED2" /\ AtRow /\ i' = i + 1)
        => /\ NoSignal(data[i].turn_status)
               => /\ turn_status_data' = IF found_0_to_3
                                         THEN Append(turn_status_data, i)
                                         ELSE turn_status_data
                  /\ found_0_to_3' = found_0_to_3
                  /\ pc' = "filter_loop"
           /\ (pc' = "filter_break") => ThreeAmongLastFive(turn_status_data')
      ]_vars

\* C4 witness: NED2.py is still ACTIVE after a row with status 1, because the
\* only status 3 has been pushed out of the last five by rows with no status
\* and rows with an unparseable one.
C4_Witness ==
    /\ variant = "NED2"
    /\ pc = "filter_loop"
    /\ Len(turn_status_data) >= 7
    /\ ParsesTo(data[turn_status_data[Len(turn_status_data)]].turn_status, 1)
    /\ \E k \in 1..Len(turn_status_data) : ParsesTo(data[turn_status_data[k]].turn_status, 3)
    /\ ~ThreeAmongLastFive(turn_status_data)
    /\ \E k \in 1..Len(turn_status_data) :
        k > Len(turn_status_data) - 5 /\ ~Truthy(data[turn_status_data[k]].turn_status)
    /\ \E k \in 1..Len(turn_status_data) :
        /\ k > Len(turn_status_data) - 5
        /\ Truthy(data[turn_status_data[k]].turn_status)
        /\ PyInt(data[turn_status_data[k]].turn_status).err

\* C5: in NED.py, when no row's status parses to 0, nothing is appended and
\* the returned list is empty.
C5_NED_NoZeroGivesEmpty ==
    (variant = "NED" /\ ~HasZero)
        => /\ turn_status_data = <<>>
           /\ (pc = "filter_done") => result = <<>>

\* C5 witness: NED.py has returned the empty list for a file whose rows carry
\* the statuses 1 and 3 but no 0.
C5_Witness ==
    /\ variant = "NED"
    /\ pc = "filter_done"
    /\ ~HasZero
    /\ \E k \in 1..Len(data) : ParsesTo(data[k].turn_status, 1)
    /\ \E k \in 1..Len(data) : ParsesTo(data[k].turn_status, 3)
    /\ result = <<>>

\* C6: in NED2.py, when no row's status parses to 0 the returned list is the
\* whole input, every row once and in order; the returned list is empty only
\* when the input is.
C6_NED2_NoZeroGivesAllRows ==
    (variant = "NED2" /\ pc = "filter_done")
        => /\ ~HasZero => result = [k \in 1..Len(data) |-> k]
           /\ (result = <<>>) => data = <<>>

\* C6 witness: NED2.py has run its loop over rows that carry statuses but no
\* 0, appended nothing, and returned the whole input.
C6_Witness ==
    /\ variant = "NED2"
    /\ pc = "filter_done"
    /\ ~HasZero
    /\ \E k \in 1..Len(data) : ParsesTo(data[k].turn_status, 1)
    /\ turn_status_data = <<>>
    /\ Len(data) >= 2
    /\ result = [k \in 1..Len(data) |-> k]

\* row k, at or after the first 0, is a stop record: its status parses to 1
\* and the status of one of the five rows ending with it, none of them before
\* the first 0, parses to 3
StopRecord(k) ==
    /\ k >= FirstZero
    /\ ParsesTo(data[k].turn_status, 1)
    /\ \E j \in 1..k : j >= FirstZero /\ j > k - 5 /\ ParsesTo(data[j].turn_status, 3)

\* position of the first stop record, the last position when there is none
FirstStop ==
    IF \E k \in 1..Len(data) : StopRecord(k)
    THEN CHOOSE k \in 1..Len(data) : StopRecord(k) /\ \A j \in 1..(k - 1) : ~StopRecord(j)
    ELSE Len(data)

\* the positions a, a + 1, ..., b
Run(a, b) == [n \in 1..(b - a + 1) |-> a + n - 1]

\* int() and str.isdigit() agree on every status of the input
PlainStatuses ==
    \A k \in 1..Len(data) :
        Truthy(data[k].turn_status)
            => (IsDigit(data[k].turn_status) <=> ~PyInt(data[k].turn_status).err)

\* C15: in NED2.py, when some status parses to 0, the output is exactly the
\* run of input rows from the first such row to the stop record, or to the
\* end of the input when there is no stop record: every row at most once, in
\* input order, without gaps, whatever later rows with status 0 there are.
C15_NED2_OutputIsContiguousRun ==
    (pc = "filter_done" /\ variant = "NED2" /\ HasZero)
        => result = Run(FirstZero, FirstStop)

\* The same for the inputs on whose statuses int() and str.isdigit() agree.
C15_NED2_PlainOutputIsContiguousRun ==
    (pc = "filter_done" /\ variant = "NED2" /\ HasZero /\ PlainStatuses)
        => result = Run(FirstZero, FirstStop)

\* a run that went over a second 0 and ended at a stop record before the end
\* of the input
C15_RunReached ==
    /\ pc = "filter_done" /\ variant = "NED2" /\ HasZero /\ PlainStatuses
    /\ FirstStop < Len(data)
    /\ \E k \in 1..Len(data) :
        k > FirstZero /\ k < FirstStop /\ ParsesTo(data[k].turn_status, 0)
    /\ result = Run(FirstZero, FirstStop)

\* a step of program v runs the lookback: the filter is ACTIVE and row i,
\* whose status parses to 1, has just been appended
LookbackStep(v) ==
    /\ variant = v
    /\ AtRow /\ i' = i + 1
    /\ found_0_to_3'
    /\ ParsesTo(data[i].turn_status, 1)

\* the list the lookback of this step slices
LookbackList == Append(turn_status_data, i)

\* entry k of the slice is counted as a status 3 by the comprehension of
\* program v: it passes the comprehension's filter and int() gives 3
CountedAsThree(v, k) ==
    /\ k \in recent_rows(v, data, LookbackList)
    /\ ParsesTo(data[LastFive(LookbackList)[k]].turn_status, 3)

\* in the lookback of program v, the entries of the five-row window counted
\* as a status 3 are those whose status the integer parse reads as 3
LookbackAgrees(v) ==
    LookbackStep(v) =>
        \A k \in DOMAIN LastFive(LookbackList) :
            CountedAsThree(v, k)
                <=> ParsesTo(data[LastFive(LookbackList)[k]].turn_status, 3)

\* C16: in NED2.py an appended row is counted as a status 3 by the lookback
\* if and only if the integer parse that drives the transitions reads its
\* status as 3, a status written as ' 3' included.
C16_NED2_LookbackAgreesWithParse == [][LookbackAgrees("NED2")]_vars

\* The same of NED.py, whose comprehension has no isdigit test.
C16_NED_LookbackAgreesWithParse == [][LookbackAgrees("NED")]_vars

\* NED.py has stopped at a row with status 1 because of a row with status ' 3'
C16_NED_StoppedOnSpacedThree ==
    /\ variant = "NED"
    /\ pc = "filter_break"
    /\ \A k \in 1..Len(turn_status_data) : data[turn_status_data[k]].turn_status # <<"3">>
    /\ \E k \in 1..Len(turn_status_data) : data[turn_status_data[k]].turn_status = <<" ", "3">>

---------------------------------------------------------------------------
(* Properties of extract_reference_data *)

\* all four reference fields of row k are non-empty and float() accepts them
Qualifies(k) ==
    \A f \in REQUIRED_FIELDS : data[k][f] # <<>> /\ ~PyFloat(data[k][f]).err

QualifyingRows == { k \in 1..Len(data) : Qualifies(k) }

\* The step-by-step function returns what the function as a whole returns.
RefAgrees == pc = "ref_done" => reference_data = extract_reference_data(variant, data)

\* C7: in both programs extract_reference_data returns the four values of the
\* first row, in file order, whose four reference fields are all non-empty and
\* parse as numbers, passing over every row with a missing, empty or
\* unparseable field; it returns None exactly when no row qualifies.
C7_FirstCompleteRow ==
    (pc = "ref_done")
        => IF QualifyingRows = {}
           THEN reference_data = None
           ELSE LET k == CHOOSE q \in QualifyingRows : \A r \in QualifyingRows : q <= r
                IN  reference_data =
                        Some([f \in REQUIRED_FIELDS |-> PyFloat(data[k][f]).v])

\* C7 witness: the function has returned the values of the third row after
\* passing over a row with a missing field and a row with an unparseable one.
C7_Witness ==
    /\ pc = "ref_done"
    /\ Len(data) >= 3
    /\ \E f \in REQUIRED_FIELDS : data[1][f] = <<>>
    /\ \E f \in REQUIRED_FIELDS : data[2][f] # <<>> /\ PyFloat(data[2][f]).err
    /\ Qualifies(3)
    /\ reference_data = Some([f \in REQUIRED_FIELDS |-> PyFloat(data[3][f]).v])

\* C8 (as stated): every reference fix that extract_reference_data returns has
\* four finite values.
C8_ReferenceFixIsFinite ==
    (pc = "ref_done" /\ reference_data # None)
        => \A f \in REQUIRED_FIELDS : reference_data[1][f].kind = "num"

---------------------------------------------------------------------------
(* Properties of the per-file pipeline *)

\* the rows of the file under analysis
FileRows == file_path.rows

\* all four reference fields of row k of the file are non-empty and float()
\* accepts them
FileRowQualifies(k) ==
    \A f \in REQUIRED_FIELDS : FileRows[k][f] # <<>> /\ ~PyFloat(FileRows[k][f]).err

\* position of the first qualifying row of the file (0 when there is none)
FirstFix ==
    IF \E k \in 1..Len(FileRows) : FileRowQualifies(k)
    THEN CHOOSE k \in 1..Len(FileRows) :
            FileRowQualifies(k) /\ \A j \in 1..(k - 1) : ~FileRowQualifies(j)
    ELSE 0

\* the value of field f of the first qualifying row
FixValue(f) == PyFloat(FileRows[FirstFix][f]).v

\* The step-by-step analyze_file returns what the function as a whole returns.
AnalyzeAgrees ==
    (variant = "NED2" /\ pc = "analyze_done") => file_result = Some(analyze_file(file_path))

\* C9: in analyze and analyze_file the reference fix is the first qualifying
\* row of the whole file, wherever that row lies with respect to the rows the
\* turn filter keeps; the baseline heading and the target point are computed
\* from that row, and they are the same before and after the filter has run.
C9_ReferenceFromUnfilteredRows ==
    /\ (pc \in {"analyze_baseline", "analyze_filter", "analyze_transform", "plotted"})
        => /\ FirstFix # 0
           /\ reference_data = Some([f \in REQUIRED_FIELDS |-> FixValue(f)])
    /\ (pc \in {"analyze_filter", "analyze_transform", "plotted"})
        => /\ baseline[1].baseline_heading =
                  FSub(FixValue("heading_deg"), FixValue("offset_deg"))
           /\ target[1] =
                  <<FSub(FixValue("target_lon"), Num(PROJECTION_LON_CENTER)),
                    FSub(FixValue("target_lat"), Num(PROJECTION_LAT_CENTER))>>
    /\ (pc = "analyze_done" /\ file_result[1].success)
        => /\ reference_data = Some([f \in REQUIRED_FIELDS |-> FixValue(f)])
           /\ target[1] =
                  <<FSub(FixValue("target_lon"), Num(PROJECTION_LON_CENTER)),
                    FSub(FixValue("target_lat"), Num(PROJECTION_LAT_CENTER))>>
           /\ file_result[1].baseline_heading =
                  FSub(FixValue("heading_deg"), FixValue("offset_deg"))

\* C9 witness: the pipeline has finished with the fix of a first row that the
\* turn filter discarded, although a row the filter kept carries another fix.
C9_Witness ==
    /\ pc \in {"plotted", "analyze_done"}
    /\ FirstFix # 0
    /\ \A k \in 1..Len(turn_status_data) : turn_status_data[k] # FirstFix
    /\ \E k \in 1..Len(turn_status_data) :
        /\ FileRowQualifies(turn_status_data[k])
        /\ FileRows[turn_status_data[k]].heading_deg # FileRows[FirstFix].heading_deg
    /\ baseline # None
    /\ baseline[1].baseline_heading = FSub(FixValue("heading_deg"), FixValue("offset_deg"))

---------------------------------------------------------------------------
(* Properties of the batch driver *)

\* what one pass over the list `files` leaves in analysis_results after its
\* first n files
BatchResults(files, n) == [k \in 1..n |-> analyze_file(files[k])]

\* a result as analyze_file tags it
Tagged(r) ==
    /\ r.success \in BOOLEAN
    /\ r.success => DOMAIN r = {"file_path", "transformed_trajectory", "timestamps",
                                "cross_track_errors", "baseline_heading", "success"}
    /\ ~r.success => DOMAIN r = {"file_path", "error", "success"}

\* Every entry of analysis_results is a tagged result, a failed file included,
\* and the loop that met a failure goes on to its next file.
C10_FailedFileYieldsTaggedResult ==
    /\ \A k \in DOMAIN analysis_results : Tagged(analysis_results[k])
    /\ \A d \in DOMAIN stack :
        \A k \in DOMAIN stack[d].successful_results :
            stack[d].successful_results[k].success

\* C10: a failing file never aborts the batch: every result is tagged, and
\* while the run_analysis that passed its guards is the only one in progress,
\* analysis_results holds exactly the results of the files its loop has
\* handled so far, one per file and in file order; all of them once the loop
\* is over.
C10_OneResultPerSelectedFile ==
    /\ \A k \in DOMAIN analysis_results : Tagged(analysis_results[k])
    /\ Len(stack) = 1 =>
        analysis_results = BatchResults(stack[1].files, stack[1].idx - 1)

\* a batch whose first file failed has finished its loop with one result per
\* file (reached by the run in which no second run_analysis was dispatched)
C10_BatchCompletedAfterFailure ==
    /\ Len(stack) = 1
    /\ Len(stack[1].files) = MaxSel
    /\ stack[1].idx > Len(stack[1].files)
    /\ analysis_results = BatchResults(stack[1].files, MaxSel)
    /\ ~analysis_results[1].success
    /\ analysis_results[MaxSel].success

\* a non-empty file list implies that an export directory is set
FilesImplyDirectory == file_paths # <<>> => export_directory # ""

\* file_paths changes only while an export directory is set, and only to a
\* non-empty selection: it is left alone when the directory is unset and when
\* the file dialog is cancelled
FilesChangeOnlyBySelection ==
    file_paths' # file_paths => (export_directory # "" /\ file_paths' # <<>>)

\* an export directory that is set stays set
DirectoryNeverCleared == export_directory # "" => export_directory' # ""

\* while the export directory or the file list is empty no file is analysed
\* and analysis_results is left alone
NothingRunsUnconfigured ==
    (export_directory = "" \/ file_paths = <<>>)
        => (analysis_results' = analysis_results /\ stack' = stack /\ stack = <<>>)

\* C17: after any sequence of select_export_directory, select_files and
\* run_analysis events, with any dialog outcome: a non-empty file_paths
\* implies a non-empty export_directory; select_files leaves file_paths
\* unchanged when the export directory is unset or the dialog is cancelled;
\* the export directory, once set, is never cleared; and run_analysis
\* analyses no file and leaves analysis_results unchanged when the export
\* directory or the file list is empty.
C17_GuiGuardsHold ==
    /\ []FilesImplyDirectory
    /\ [][/\ FilesChangeOnlyBySelection
          /\ DirectoryNeverCleared
          /\ NothingRunsUnconfigured]_vars

\* C17 witness: with a directory set and MaxSel files selected, a batch has
\* run to its end and left a result for each file.
C17_Witness ==
    /\ export_directory # ""
    /\ Len(file_paths) = MaxSel
    /\ stack = <<>>
    /\ Len(analysis_results) = MaxSel

---------------------------------------------------------------------------
(* Properties of the baseline functions *)

\* the frame calculate_baseline_vectors returned
Frame == baseline[1]

\* every component of the frame is a finite number
FiniteFrame ==
    /\ IsFinite(Frame.unit_x) /\ IsFinite(Frame.unit_y)
    /\ IsFinite(Frame.perp_x) /\ IsFinite(Frame.perp_y)

\* the image of point p: its offset from the target, resolved along perp
\* (first coordinate) and along unit (second coordinate)
ImageOf(p) ==
    LET dx == FSub(p[1], target[1][1])
        dy == FSub(p[2], target[1][2])
    IN  <<FAdd(FMul(dx, Frame.perp_x), FMul(dy, Frame.perp_y)),
          FAdd(FMul(dx, Frame.unit_x), FMul(dy, Frame.unit_y))>>

\* the output is the list of the images of the input points, in their order
ElementWise ==
    /\ Len(transformed_trajectory) = Len(trajectory_xys)
    /\ \A k \in 1..Len(trajectory_xys) : transformed_trajectory[k] = ImageOf(trajectory_xys[k])

\* an input point equal to the target is mapped to (0, 0)
TargetToOrigin ==
    \A k \in 1..Len(trajectory_xys) :
        trajectory_xys[k] = target[1] => transformed_trajectory[k] = <<Num(0), Num(0)>>

\* C11: for every list of points, target and frame the output of
\* transform_to_baseline_coordinate has the length of the input, its k-th
\* element is the image of the k-th input point, and an input point equal to
\* the target is mapped to (0, 0).
C11_TransformIsElementwise ==
    pc = "transform_done" => ElementWise /\ TargetToOrigin

\* The same for the frames whose components are finite.
C11_FiniteFrameTransformIsElementwise ==
    (pc = "transform_done" /\ FiniteFrame) => ElementWise /\ TargetToOrigin

\* a list of MaxPts points with the target in it has been transformed with a
\* finite frame
C11_FiniteFrameReached ==
    /\ pc = "transform_done"
    /\ FiniteFrame
    /\ Len(trajectory_xys) = MaxPts
    /\ \E k \in 1..MaxPts : trajectory_xys[k] = target[1]
    /\ \E k \in 1..MaxPts : trajectory_xys[k] # target[1]

\* calculate_baseline_vectors has returned
FrameReturned == pc \in {"transform_call", "transform_done"}

Dot(ax, ay, bx, by) == FAdd(FMul(ax, bx), FMul(ay, by))

\* perp is unit turned clockwise by 90 degrees
PerpIsRotatedUnit ==
    /\ Frame.perp_x = Frame.unit_y
    /\ Frame.perp_y = FNeg(Frame.unit_x)

\* unit . perp = 0, and |perp| = |unit|
PerpIsOrthogonal ==
    /\ Dot(Frame.unit_x, Frame.unit_y, Frame.perp_x, Frame.perp_y) = Num(0)
    /\ Dot(Frame.perp_x, Frame.perp_y, Frame.perp_x, Frame.perp_y)
         = Dot(Frame.unit_x, Frame.unit_y, Frame.unit_x, Frame.unit_y)

\* the baseline heading heading_deg - offset_deg is h
HeadingIs(h) == Frame.baseline_heading = Num(h)

\* the frame is exactly unit = (ux, uy), perp = (px, py)
FrameIs(ux, uy, px, py) ==
    /\ Frame.unit_x = Num(ux) /\ Frame.unit_y = Num(uy)
    /\ Frame.perp_x = Num(px) /\ Frame.perp_y = Num(py)

\* x is n up to the rounding of sin and cos (at most 10 * 6.123e-17 for the
\* headings of the model)
Near(x, n) == IsFinite(x) /\ x.val = n

FrameIsNear(ux, uy, px, py) ==
    /\ Near(Frame.unit_x, ux) /\ Near(Frame.unit_y, uy)
    /\ Near(Frame.perp_x, px) /\ Near(Frame.perp_y, py)

\* C12: for every heading and offset the frame calculate_baseline_vectors
\* returns has perp = (unit_y, -unit_x), so unit . perp = 0 and |perp| = |unit|,
\* and at the baseline headings 0, 90, 180, 270 the unit vector is (0,1),
\* (1,0), (0,-1), (-1,0) and perp is (1,0), (0,-1), (-1,0), (0,1).
C12_PerpIsClockwiseRotation ==
    FrameReturned =>
        /\ PerpIsRotatedUnit
        /\ PerpIsOrthogonal
        /\ HeadingIs(0) => FrameIs(0, 1, 1, 0)
        /\ HeadingIs(90) => FrameIs(1, 0, 0, 0 - 1)
        /\ HeadingIs(180) => FrameIs(0, 0 - 1, 0 - 1, 0)
        /\ HeadingIs(270) => FrameIs(0 - 1, 0, 0, 1)

\* For a finite heading and offset: perp is the rotated unit, unit . perp is
\* exactly 0, and at the four cardinal headings the vectors are the cardinal
\* ones up to the rounding of sin and cos.
C12_FinitePerpIsClockwiseRotation ==
    (FrameReturned /\ IsFinite(Frame.baseline_heading)) =>
        /\ PerpIsRotatedUnit
        /\ PerpIsOrthogonal
        /\ HeadingIs(0) => FrameIsNear(0, 1, 1, 0)
        /\ HeadingIs(90) => FrameIsNear(1, 0, 0, 0 - 1)
        /\ HeadingIs(180) => FrameIsNear(0, 0 - 1, 0 - 1, 0)
        /\ HeadingIs(270) => FrameIsNear(0 - 1, 0, 0, 1)

\* the frame of heading 270 and offset 90, baseline heading 180, was returned
C12_CardinalFrameReached ==
    /\ FrameReturned
    /\ reference_data[1].heading_deg = Num(270)
    /\ reference_data[1].offset_deg = Num(90)
    /\ FrameIsNear(0, 0 - 1, 0 - 1, 0)

\* the heading and the offset the function was called with
CallHeading == reference_data[1].heading_deg
CallOffset == reference_data[1].offset_deg

\* C14: calculate_baseline_vectors fails whenever heading_deg or offset_deg is
\* not finite: it never returns a frame computed from a NaN or an infinity.
C14_NonFiniteInputFails ==
    FrameReturned => IsFinite(CallHeading) /\ IsFinite(CallOffset)

\* What the function does instead: it raises (ValueError, from math.sin) when
\* the difference heading_deg - offset_deg is an infinity, and only then.
C14_RaisesIffInfiniteDifference ==
    /\ pc = "baseline_raised" => FSub(CallHeading, CallOffset).kind \in {"inf", "-inf"}
    /\ FrameReturned => FSub(CallHeading, CallOffset).kind \in {"num", "nan"}

\* a frame of NaNs came back from an infinite heading with an infinite offset
C14_NaNFrameReturned ==
    /\ FrameReturned
    /\ CallHeading = PosInf /\ CallOffset = PosInf
    /\ Frame.unit_x = NaN /\ Frame.perp_y = NaN

---------------------------------------------------------------------------
(* Properties of the cross-track samples *)

\* the rows the turn filter selected, in the order of its output
FilteredRows == RowsAt(data, turn_status_data)

\* the cross_track_error of filtered row number n (0-based) is present and
\* float() accepts it
HasSample(n) ==
    /\ FilteredRows[n + 1].cross_track_error # <<>>
    /\ ~PyFloat(FilteredRows[n + 1].cross_track_error).err

\* the samples of the returned result: (timestamps[j], cross_track_errors[j])
SampleIndex(j) == file_result[1].timestamps[j]
SampleValue(j) == file_result[1].cross_track_errors[j]
SampleCount == Len(file_result[1].timestamps)

\* the rows with a timestamp on those whose position is in S, and none on
\* the others
Stamped(rows, S) ==
    [k \in 1..Len(rows) |->
        [rows[k] EXCEPT !.timestamp = IF k \in S THEN <<"t">> ELSE <<>>]]

===========================================================================
